---- MODULE Spec2Model ----
(***************************************************************************)
(* Model of sdk/opendp/whitenoise/sql/dpsu.py: reservoir_sample and        *)
(* policy_laplace (differentially private set union, policy Laplace).      *)
(*                                                                         *)
(* Numbers of the program are Python floats; the model computes with exact *)
(* rationals <<numerator, denominator>> in lowest terms, denominator > 0.  *)
(* Python dicts (histogram, cost_dict) are sequences of <<key, value>>     *)
(* pairs in insertion order.                                               *)
(***************************************************************************)
EXTENDS Integers, Sequences, FiniteSets

\* ------------------------------------------------------------ bounds
\* longest input dataframe (rows) drawn with valid parameters
MaxRows == 4
\* longest input dataframe drawn with arbitrary (also invalid) parameters
MaxRowsAnyParams == 2
\* largest max_contrib drawn
MaxContrib == 2

Users == {1, 2, 3}
Items == {"A", "B"}

\* ------------------------------------------------------------ rationals
Abs(n) == IF n < 0 THEN -n ELSE n

RECURSIVE GCD(_, _)
GCD(a, b) == IF b = 0 THEN a ELSE GCD(b, a % b)

Norm(n, d) ==
    LET s == IF d < 0 THEN -1 ELSE 1
        g == GCD(Abs(n), Abs(d))
    IN  IF n = 0 THEN <<0, 1>> ELSE <<(s * n) \div g, (s * d) \div g>>

Zero == <<0, 1>>
One == <<1, 1>>
RInt(n) == <<n, 1>>
RAdd(x, y) == Norm(x[1] * y[2] + y[1] * x[2], x[2] * y[2])
RSub(x, y) == Norm(x[1] * y[2] - y[1] * x[2], x[2] * y[2])
RMul(x, y) == Norm(x[1] * y[1], x[2] * y[2])
\* x / y, y # 0
RDiv(x, y) == Norm(x[1] * y[2], x[2] * y[1])
RLt(x, y) == x[1] * y[2] < y[1] * x[2]
RLe(x, y) == x[1] * y[2] <= y[1] * x[2]
RMax(x, y) == IF RLt(x, y) THEN y ELSE x

\* ------------------------------------------------------------ dicts
Keys(d) == {d[p][1] : p \in 1..Len(d)}
Has(d, key) == key \in Keys(d)
Get(d, key) == d[CHOOSE p \in 1..Len(d) : d[p][1] = key][2]
\* d[key] = v: an existing key keeps its place, a new key goes last
Put(d, key, v) ==
    IF Has(d, key)
    THEN [p \in 1..Len(d) |-> IF d[p][1] = key THEN <<key, v>> ELSE d[p]]
    ELSE Append(d, <<key, v>>)
\* defaultdict(float): reading a missing key inserts it with 0.0
Touch(d, key) == IF Has(d, key) THEN d ELSE Append(d, <<key, Zero>>)
Weight(d, key) == IF Has(d, key) THEN Get(d, key) ELSE Zero

\* ------------------------------------------------------------ inputs
\* eps, delta as rationals; the valid ones satisfy eps > 0, 0 < delta < 1
EpsVals == {<<-8, 1>>, <<-1, 1>>, Zero, <<8, 1>>}
DeltaVals == {<<-1, 1>>, Zero, <<1, 2>>, One, <<2, 1>>}
ContribVals == 0..MaxContrib
ValidEps == {e \in EpsVals : RLt(Zero, e)}
ValidDelta == {d \in DeltaVals : RLt(Zero, d) /\ RLt(d, One)}
ValidContrib == {c \in ContribVals : c >= 1}

\* hash(str(x)) of the user identifiers: any function (it is salted per process)
HashVals == {0, 1}
HashFns == [Users -> HashVals]
\* the hash function of the runs over the long dataframes: 1 -> 1, 2 -> 0, 3 -> 1
HashMain == [u \in Users |-> u % 2]

\* dataframes: sequences of rows <<user_id, item>>
Frames(n) == UNION {[1..m -> Users \X Items] : m \in 0..n}

\* laplace(0, lambd, 1)[0] for an item of weight w: of the real line, two fixed
\* draws and the one that lands the noisy weight exactly on rho
NoiseDraws(w, r) == {Zero, One, RSub(r, w)}

\* ------------------------------------------------------------ state
VARIABLES
    pc,            \* position in policy_laplace
    df,            \* the dataframe argument, later the sorted / filtered one
    hashOf,        \* hash(str(user_id)) in this process
    eps, delta, max_contrib,
    lambd, rho, gamma,
    histogram,     \* defaultdict(float): <<item, weight>> pairs
    groups,        \* groups of df.groupby(key_col) still to visit: <<user, items>>
    group,         \* group["group_cols"] of the user being processed
    items,         \* that user's bounded item list
    cost_dict, budget, k, sorted_items,
    idx, j, cost,  \* loop variables of lines 81-97
    pos,           \* position of the release loop in histogram.keys()
    released,      \* the list `items` of lines 99-103
    visited,       \* history: users in the order their allocation ran
    hist0,         \* history: histogram when the current user's step began
    step,          \* history: state at the last test of line 83
    accum,         \* history: histogram when the release loop began
    noise          \* history: the noise drawn for each key so far

vars == <<pc, df, hashOf, eps, delta, max_contrib, lambd, rho, gamma, histogram,
          groups, group, items, cost_dict, budget, k, sorted_items, idx, j, cost,
          pos, released, visited, hist0, step, accum, noise>>

NoStep == [branch |-> "none", idx |-> 0, k |-> 0, budget |-> Zero,
           hist |-> <<>>, costs |-> <<>>]

Init ==
    /\ pc = "start"
    /\ \/ /\ eps \in ValidEps
          /\ delta \in ValidDelta
          /\ max_contrib \in ValidContrib
          /\ hashOf = HashMain
          /\ df \in Frames(MaxRows)
       \/ /\ eps \in EpsVals
          /\ delta \in DeltaVals
          /\ max_contrib \in ContribVals
          /\ hashOf \in HashFns
          /\ df \in Frames(MaxRowsAnyParams)
    /\ lambd = Zero /\ rho = Zero /\ gamma = Zero
    /\ histogram = <<>>
    /\ groups = <<>> /\ group = <<>> /\ items = <<>>
    /\ cost_dict = <<>> /\ budget = Zero /\ k = 0 /\ sorted_items = <<>>
    /\ idx = 0 /\ j = 0 /\ cost = Zero
    /\ pos = 0 /\ released = <<>>
    /\ visited = <<>> /\ hist0 = <<>> /\ step = NoStep
    /\ accum = <<>> /\ noise = <<>>

\* ------------------------------------------------------------ lines 53-59
\* ln(1 / (2 * (1 - (1 - delta)**(1 / i)))) to three decimals, where it is defined
LnTerm(d, i) ==
    CASE d = <<1, 2>> /\ i = 1 -> Zero
      [] d = <<1, 2>> /\ i = 2 -> <<107, 200>>
      [] d = <<1, 2>> /\ i = 3 -> <<177, 200>>
      [] d = <<1, 2>> /\ i >= 4 -> <<229, 200>>
      [] d = One -> <<-693, 1000>>
      [] OTHER -> <<-693, 500>>

\* the exceptions of lines 54-56: 1 / eps; 1 / 0 and math.log of a negative or
\* a complex number in the comprehension; max() of an empty list
DerivationRaises(e, d, mc) ==
    \/ e = Zero
    \/ mc >= 1 /\ RLe(d, Zero)
    \/ mc >= 2 /\ RLt(One, d)
    \/ mc < 1

RhoTerm(l, d, i) == RAdd(RDiv(One, RInt(i)), RMul(l, LnTerm(d, i)))

RECURSIVE MaxRho(_, _, _)
MaxRho(l, d, mc) ==
    IF mc = 1 THEN RhoTerm(l, d, 1)
    ELSE RMax(MaxRho(l, d, mc - 1), RhoTerm(l, d, mc))

alpha == <<3, 1>>

Derive ==
    /\ pc = "start"
    /\ IF DerivationRaises(eps, delta, max_contrib)
       THEN /\ pc' = "error"
            /\ UNCHANGED <<lambd, rho, gamma>>
       ELSE /\ pc' = "sort"
            /\ lambd' = RDiv(One, eps)
            /\ rho' = MaxRho(lambd', delta, max_contrib)
            /\ gamma' = RAdd(rho', RMul(alpha, lambd'))
    /\ histogram' = <<>>
    /\ UNCHANGED <<df, hashOf, eps, delta, max_contrib, groups, group,
                   items, cost_dict, budget, k, sorted_items, idx, j, cost, pos,
                   released, visited, hist0, step, accum, noise>>

\* ------------------------------------------------------------ lines 61-65
\* df.sort_values("hash"): rows in ascending hash, ties in their input order.
\* (The default quicksort may order ties otherwise; rows tie within a user, and
\* Init draws the rows of a user in every order.)
RECURSIVE sort_values(_, _)
sort_values(rows, h) ==
    IF rows = <<>> THEN <<>>
    ELSE LET n == Len(rows)
             init == sort_values(SubSeq(rows, 1, n - 1), h)
             x == rows[n]
             p == Cardinality({q \in 1..(n - 1) : h[init[q][1]] <= h[x[1]]})
         IN  SubSeq(init, 1, p) \o <<x>> \o SubSeq(init, p + 1, n - 1)

RECURSIVE Ascending(_)
Ascending(S) ==
    IF S = {} THEN <<>>
    ELSE LET m == CHOOSE x \in S : \A y \in S : x <= y
         IN  <<m>> \o Ascending(S \ {m})

ItemsOf(rows, u) ==
    LET mine == SelectSeq(rows, LAMBDA r : r[1] = u)
    IN  [p \in 1..Len(mine) |-> mine[p][2]]

\* df.groupby(key_col): one group per distinct key, the keys sorted ascending,
\* the rows of a group in the order they have in df
groupby(rows) ==
    LET keys == Ascending({rows[p][1] : p \in 1..Len(rows)})
    IN  [g \in 1..Len(keys) |-> <<keys[g], ItemsOf(rows, keys[g])>>]

SortAndGroup ==
    /\ pc = "sort"
    /\ df' = sort_values(df, hashOf)
    /\ groups' = groupby(df')
    /\ pc' = "users"
    /\ UNCHANGED <<hashOf, eps, delta, max_contrib, lambd, rho, gamma, histogram,
                   group, items, cost_dict, budget, k, sorted_items, idx, j, cost,
                   pos, released, visited, hist0, step, accum, noise>>

\* ------------------------------------------------------------ lines 27-37
\* the random.randint(0, i) results a call over n items may see, one for each
\* i = max_contrib .. n - 1
Draws(n, mc) == {f \in [mc..(n - 1) -> 0..(n - 1)] : \A i \in mc..(n - 1) : f[i] <= i}

\* reservoir_sample with line 30 reading `i <= max_contrib`
RECURSIVE reservoir_sample_off_by_one(_, _, _, _)
reservoir_sample_off_by_one(iterable, mc, draws, n) ==
    IF n = 0 THEN <<>>
    ELSE LET i == n - 1
             item == iterable[n]
             reservoir == reservoir_sample_off_by_one(iterable, mc, draws, n - 1)
         IN  IF i <= mc THEN Append(reservoir, item)
             ELSE IF draws[i] < mc
                  THEN [reservoir EXCEPT ![draws[i] + 1] = item]
                  ELSE reservoir

\* the reservoir after the first n items of iterable
RECURSIVE reservoir_sample(_, _, _, _)
reservoir_sample(iterable, mc, draws, n) ==
    IF n = 0 THEN <<>>
    ELSE LET i == n - 1
             item == iterable[n]
             reservoir == reservoir_sample(iterable, mc, draws, n - 1)
         IN  IF i < mc THEN Append(reservoir, item)
             ELSE IF draws[i] < mc
                  THEN [reservoir EXCEPT ![draws[i] + 1] = item]
                  ELSE reservoir

\* ------------------------------------------------------------ lines 65-69
NextUser ==
    /\ pc = "users"
    /\ groups # <<>>
    /\ group' = Head(groups)[2]
    /\ groups' = Tail(groups)
    /\ IF Len(group') > max_contrib
       THEN \E draws \in Draws(Len(group'), max_contrib) :
               items' = reservoir_sample(group', max_contrib, draws, Len(group'))
       ELSE items' = group'
    /\ visited' = Append(visited, Head(groups)[1])
    /\ hist0' = histogram
    /\ step' = NoStep
    /\ pc' = "costs"
    /\ UNCHANGED <<df, hashOf, eps, delta, max_contrib, lambd, rho, gamma, histogram,
                   cost_dict, budget, k, sorted_items, idx, j, cost, pos, released,
                   accum, noise>>

\* ------------------------------------------------------------ lines 71-79
\* line 73
IsCandidate(w, g) == RLt(w, g)
\* line 74
Headroom(w, g) == RSub(g, w)

\* lines 72-74 over the first n items: <<histogram, cost_dict>>
RECURSIVE BuildCosts(_, _, _, _)
BuildCosts(hist, its, g, n) ==
    IF n = 0 THEN <<hist, <<>>>>
    ELSE LET prev == BuildCosts(hist, its, g, n - 1)
             item == its[n]
             h == Touch(prev[1], item)
         IN  IF IsCandidate(Get(h, item), g)
             THEN <<h, Put(prev[2], item, Headroom(Get(h, item), g))>>
             ELSE <<h, prev[2]>>

\* sorted(cost_dict.items(), key=cost): ascending cost, ties in dict order
RECURSIVE SortedByCost(_)
SortedByCost(d) ==
    IF d = <<>> THEN <<>>
    ELSE LET n == Len(d)
             init == SortedByCost(SubSeq(d, 1, n - 1))
             x == d[n]
             p == Cardinality({q \in 1..(n - 1) : RLe(init[q][2], x[2])})
         IN  SubSeq(init, 1, p) \o <<x>> \o SubSeq(init, p + 1, n - 1)

Costs ==
    /\ pc = "costs"
    /\ LET built == BuildCosts(histogram, items, gamma, Len(items))
           sorted == SortedByCost(built[2])
       IN  /\ histogram' = built[1]
           /\ cost_dict' = built[2]
           /\ sorted_items' = [p \in 1..Len(sorted) |-> sorted[p][1]]
    /\ budget' = One
    /\ k' = Len(cost_dict')
    /\ idx' = 0
    /\ pc' = "loop"
    /\ UNCHANGED <<df, hashOf, eps, delta, max_contrib, lambd, rho, gamma, groups,
                   group, items, j, cost, pos, released, visited, hist0, step,
                   accum, noise>>

\* ------------------------------------------------------------ lines 81-97
\* line 82
StepCost(c, n) == RMul(c, RInt(n))
\* line 83
Affordable(c, b) == RLe(c, b)
\* line 87 with `-=` for `+=`
Lowered(w, c) == RSub(w, c)
\* line 87
Raised(w, c) == RAdd(w, c)
\* line 96 without the division by k
LeftoverWhole(b, n) == b
\* line 96
LeftoverShare(b, n) == RDiv(b, RInt(n))

curr_item == sorted_items[idx + 1]
remaining_item == sorted_items[j + 1]

\* lines 81-83, 92: the loop takes the next item and picks its branch
LoopTest ==
    /\ pc = "loop"
    /\ idx < Len(sorted_items)
    /\ cost' = StepCost(Get(cost_dict, curr_item), k)
    /\ pc' = IF Affordable(cost', budget) THEN "sat" ELSE "left"
    /\ j' = idx
    /\ step' = [branch |-> pc', idx |-> idx, k |-> k, budget |-> budget,
                hist |-> histogram, costs |-> cost_dict]
    /\ UNCHANGED <<df, hashOf, eps, delta, max_contrib, lambd, rho, gamma, histogram,
                   groups, group, items, cost_dict, budget, k, sorted_items, idx,
                   pos, released, visited, hist0, accum, noise>>

\* line 81: no item is left
LoopExhausted ==
    /\ pc = "loop"
    /\ idx >= Len(sorted_items)
    /\ pc' = "users"
    /\ UNCHANGED <<df, hashOf, eps, delta, max_contrib, lambd, rho, gamma, histogram,
                   groups, group, items, cost_dict, budget, k, sorted_items, idx, j,
                   cost, pos, released, visited, hist0, step, accum, noise>>

\* lines 85-88: one pass of the inner loop of the affordable branch
SatUpdate ==
    /\ pc = "sat"
    /\ j < k
    /\ histogram' = Put(histogram, remaining_item,
                        Raised(Get(histogram, remaining_item), Get(cost_dict, curr_item)))
    /\ cost_dict' = Put(cost_dict, remaining_item,
                        RSub(Get(cost_dict, remaining_item), Get(cost_dict, curr_item)))
    /\ j' = j + 1
    /\ UNCHANGED <<pc, df, hashOf, eps, delta, max_contrib, lambd, rho, gamma, groups,
                   group, items, budget, k, sorted_items, idx, cost, pos, released,
                   visited, hist0, step, accum, noise>>

\* lines 90-91, after the inner loop
SatEnd ==
    /\ pc = "sat"
    /\ j >= k
    /\ budget' = RSub(budget, cost)
    /\ k' = k - 1
    /\ idx' = idx + 1
    /\ pc' = "loop"
    /\ UNCHANGED <<df, hashOf, eps, delta, max_contrib, lambd, rho, gamma, histogram,
                   groups, group, items, cost_dict, sorted_items, j, cost, pos,
                   released, visited, hist0, step, accum, noise>>

\* lines 94-96: one pass of the inner loop of the other branch
LeftUpdate ==
    /\ pc = "left"
    /\ j < k
    /\ histogram' = Put(histogram, remaining_item,
                        Raised(Get(histogram, remaining_item), LeftoverShare(budget, k)))
    /\ j' = j + 1
    /\ UNCHANGED <<pc, df, hashOf, eps, delta, max_contrib, lambd, rho, gamma, groups,
                   group, items, cost_dict, budget, k, sorted_items, idx, cost, pos,
                   released, visited, hist0, step, accum, noise>>

\* line 97
LeftBreak ==
    /\ pc = "left"
    /\ j >= k
    /\ pc' = "users"
    /\ UNCHANGED <<df, hashOf, eps, delta, max_contrib, lambd, rho, gamma, histogram,
                   groups, group, items, cost_dict, budget, k, sorted_items, idx, j,
                   cost, pos, released, visited, hist0, step, accum, noise>>

\* ------------------------------------------------------------ lines 99-106
\* line 65 finds no further group; line 99
StartRelease ==
    /\ pc = "users"
    /\ groups = <<>>
    /\ released' = <<>>
    /\ pos' = 0
    /\ accum' = histogram
    /\ noise' = <<>>
    /\ pc' = "noise"
    /\ UNCHANGED <<df, hashOf, eps, delta, max_contrib, lambd, rho, gamma, histogram,
                   groups, group, items, cost_dict, budget, k, sorted_items, idx, j,
                   cost, visited, hist0, step>>

\* line 102 with `>=` for `>`
ReachesOrExceeds(w, r) == RLe(r, w)
\* line 102
Exceeds(w, r) == RLt(r, w)

\* lines 100-103 for one key of the histogram
Release ==
    /\ pc = "noise"
    /\ pos < Len(histogram)
    /\ LET item == histogram[pos + 1][1]
       IN  \E draw \in NoiseDraws(histogram[pos + 1][2], rho) :
              /\ histogram' = Put(histogram, item, RAdd(Get(histogram, item), draw))
              /\ noise' = Append(noise, <<item, draw>>)
              /\ released' = IF Exceeds(Get(histogram', item), rho)
                             THEN Append(released, item)
                             ELSE released
    /\ pos' = pos + 1
    /\ UNCHANGED <<pc, df, hashOf, eps, delta, max_contrib, lambd, rho, gamma, groups,
                   group, items, cost_dict, budget, k, sorted_items, idx, j, cost,
                   visited, hist0, step, accum>>

\* lines 105-106
InReleased(item) == \E p \in 1..Len(released) : released[p] = item

Filter ==
    /\ pc = "noise"
    /\ pos >= Len(histogram)
    /\ df' = SelectSeq(df, LAMBDA r : InReleased(r[2]))
    /\ pc' = "done"
    /\ UNCHANGED <<hashOf, eps, delta, max_contrib, lambd, rho, gamma, histogram,
                   groups, group, items, cost_dict, budget, k, sorted_items, idx, j,
                   cost, pos, released, visited, hist0, step, accum, noise>>

Next ==
    \/ Derive
    \/ SortAndGroup
    \/ NextUser
    \/ Costs
    \/ LoopTest
    \/ LoopExhausted
    \/ SatUpdate
    \/ SatEnd
    \/ LeftUpdate
    \/ LeftBreak
    \/ StartRelease
    \/ Release
    \/ Filter

Spec == Init /\ [][Next]_vars

\* ------------------------------------------------------------ lines 71-97 as a function
\* lines 85-88 from position j on: <<histogram, cost_dict>>
RECURSIVE SatPasses(_, _, _, _, _, _)
SatPasses(hist, costs, sorted, i, jj, kk) ==
    IF jj >= kk THEN <<hist, costs>>
    ELSE LET cur == sorted[i + 1]
             rem == sorted[jj + 1]
             h == Put(hist, rem, Raised(Get(hist, rem), Get(costs, cur)))
             c == Put(costs, rem, RSub(Get(costs, rem), Get(costs, cur)))
         IN  SatPasses(h, c, sorted, i, jj + 1, kk)

\* lines 94-96 from position j on
RECURSIVE LeftPasses(_, _, _, _, _)
LeftPasses(hist, sorted, share, jj, kk) ==
    IF jj >= kk THEN hist
    ELSE LET rem == sorted[jj + 1]
         IN  LeftPasses(Put(hist, rem, Raised(Get(hist, rem), share)),
                        sorted, share, jj + 1, kk)

\* lines 81-97 from item i on
RECURSIVE AllocLoop(_, _, _, _, _, _)
AllocLoop(hist, costs, sorted, i, b, kk) ==
    IF i >= Len(sorted) THEN hist
    ELSE LET c == StepCost(Get(costs, sorted[i + 1]), kk)
         IN  IF Affordable(c, b)
             THEN LET after == SatPasses(hist, costs, sorted, i, i, kk)
                  IN  AllocLoop(after[1], after[2], sorted, i + 1, RSub(b, c), kk - 1)
             ELSE LeftPasses(hist, sorted, LeftoverShare(b, kk), i, kk)

\* the histogram after the allocation step of a user with item list its
Allocate(hist, its, g) ==
    LET built == BuildCosts(hist, its, g, Len(its))
        sorted == SortedByCost(built[2])
        names == [p \in 1..Len(sorted) |-> sorted[p][1]]
    IN  AllocLoop(built[1], built[2], names, 0, One, Len(built[2]))

\* the step-by-step allocation of lines 71-97 computes Allocate
AllocateIsTheLoop ==
    (pc = "users" /\ visited # <<>>) => histogram = Allocate(hist0, items, gamma)

\* ------------------------------------------------------------ properties
ParamsValid ==
    /\ RLt(Zero, eps)
    /\ RLt(Zero, delta) /\ RLt(delta, One)
    /\ max_contrib >= 1

Allocating == pc \in {"costs", "loop", "sat", "left", "users"}

\* the weight added to hist since it was hist_before, over all its keys
RECURSIVE Spent(_, _, _)
Spent(hist, hist_before, n) ==
    IF n = 0 THEN Zero
    ELSE RAdd(Spent(hist, hist_before, n - 1),
              RSub(hist[n][2], Weight(hist_before, hist[n][1])))

\* C1: whatever histogram a user's allocation step starts from, the weight it
\* has added over all items, at any point of the step and at its end, is at
\* most the per-user budget 1.
C1_BudgetConserved ==
    Allocating => RLe(Spent(histogram, hist0, Len(histogram)), One)

\* a user's step that saturated an item, then ran out of budget, has ended
C1_Witness ==
    /\ pc = "users"
    /\ step.branch = "left"
    /\ step.idx >= 1
    /\ RLt(Zero, Spent(histogram, hist0, Len(histogram)))

\* C2: before noise is added every histogram weight is at most gamma, and
\* every candidate of the current user had a weight below gamma when the
\* user's step began.
C2_CappedAtGamma ==
    Allocating =>
        /\ \A p \in 1..Len(histogram) : RLe(histogram[p][2], gamma)
        /\ pc \in {"loop", "sat", "left"} =>
              \A p \in 1..Len(cost_dict) : RLt(Weight(hist0, cost_dict[p][1]), gamma)

\* the statement of C2 for the calls whose parameters are valid
CappedAtGammaForValidParams == ParamsValid => C2_CappedAtGamma

\* C3: once the release pass is over, each key of the histogram has had one
\* noise draw, and an item is in the released list if and only if it is a key
\* of the histogram and its accumulated weight plus its draw is strictly
\* greater than rho.
C3_ReleasedIffAboveRho ==
    pc = "done" =>
        /\ Len(noise) = Len(accum)
        /\ \A p \in 1..Len(accum) : noise[p][1] = accum[p][1]
        /\ \A item \in Items :
              InReleased(item) <=>
                  /\ Has(accum, item)
                  /\ RLt(rho, RAdd(Get(accum, item), Get(noise, item)))

\* a finished run that released an item and held back one whose noisy weight is rho
C3_Witness ==
    /\ pc = "done"
    /\ \E item \in Keys(accum) :
          /\ RAdd(Get(accum, item), Get(noise, item)) = rho
          /\ ~InReleased(item)
    /\ \E item \in Items : InReleased(item)

Min(a, b) == IF a < b THEN a ELSE b

\* C4: the item list handed to the allocator has min(n, max_contrib) entries,
\* taken from distinct positions of the user's n rows, and is the user's
\* item sequence itself when n <= max_contrib.
C4_BoundedItems ==
    pc = "costs" =>
        LET n == Len(group)
            m == Len(items)
        IN  /\ m = Min(n, max_contrib)
            /\ \E f \in [1..m -> 1..n] :
                  /\ \A p, q \in 1..m : p # q => f[p] # f[q]
                  /\ \A p \in 1..m : items[p] = group[f[p]]
            /\ n <= max_contrib => items = group

\* a user with more rows than max_contrib, one of them replaced in the reservoir
C4_Witness ==
    /\ pc = "costs"
    /\ Len(group) > max_contrib
    /\ items # SubSeq(group, 1, max_contrib)

\* C5: until the release pass begins, no step lowers the weight of a key of
\* the histogram or removes a key, and every weight is >= 0.
C5_WeightsNeverDecrease ==
    [][pc # "noise" =>
          /\ \A p \in 1..Len(histogram) :
                /\ p <= Len(histogram')
                /\ histogram'[p][1] = histogram[p][1]
                /\ RLe(histogram[p][2], histogram'[p][2])
          /\ \A p \in 1..Len(histogram') : RLe(Zero, histogram'[p][2])]_vars

\* inside an affordable step: the current item's weight went up, its cost down
C5_Witness ==
    /\ pc = "sat"
    /\ j > idx
    /\ RLt(Get(step.hist, curr_item), Get(histogram, curr_item))
    /\ RLt(Get(cost_dict, curr_item), Get(step.costs, curr_item))

\* C6: a call with eps <= 0, delta outside (0, 1) or max_contrib < 1 never
\* gets past the derivation of rho and gamma: it is at its start or has
\* ended in an error.
C6_InvalidParamsFailFast ==
    ~ParamsValid => pc \in {"start", "error"}

\* C7: the users are visited in ascending order of the hash of their
\* identifier, each distinct user of the input once.
C7_VisitedInHashOrder ==
    /\ \A p, q \in 1..Len(visited) :
          p < q => /\ visited[p] # visited[q]
                   /\ hashOf[visited[p]] <= hashOf[visited[q]]
    /\ pc = "noise" =>
          {visited[p] : p \in 1..Len(visited)} = {df[p][1] : p \in 1..Len(df)}

\* C8: after a loop step that took the affordable branch, every candidate
\* from the current one to the end of the sorted list has had the current
\* item's cost added to its weight and taken off its recorded cost, the
\* current item is at gamma, budget is lower by cost * k and k by 1.
C8_SaturatingStepRaisesAll ==
    (pc = "loop" /\ step.branch = "sat" /\ idx = step.idx + 1) =>
        LET cur == sorted_items[step.idx + 1]
            c == Get(step.costs, cur)
        IN  /\ \A p \in (step.idx + 1)..Len(sorted_items) :
                  /\ Get(histogram, sorted_items[p])
                        = RAdd(Get(step.hist, sorted_items[p]), c)
                  /\ Get(cost_dict, sorted_items[p])
                        = RSub(Get(step.costs, sorted_items[p]), c)
            /\ Get(histogram, cur) = gamma
            /\ budget = RSub(step.budget, RMul(c, RInt(step.k)))
            /\ k = step.k - 1

\* C9: when a user's step has ended in the branch that cannot afford the
\* current item, every candidate from the current one to the end of the
\* sorted list has had budget / k added to its weight, and the weight added
\* in that branch sums to the budget that was left.
C9_LeftoverStepSpendsBudget ==
    (pc = "users" /\ step.branch = "left") =>
        /\ \A p \in (step.idx + 1)..Len(sorted_items) :
              Get(histogram, sorted_items[p])
                 = RAdd(Get(step.hist, sorted_items[p]),
                        RDiv(step.budget, RInt(step.k)))
        /\ Spent(histogram, step.hist, Len(histogram)) = step.budget

\* the orders in which the entries of a list can appear
Reorderings(its) ==
    {[p \in 1..Len(its) |-> its[f[p]]] :
        f \in {g \in [1..Len(its) -> 1..Len(its)] :
                  \A p, q \in 1..Len(its) : p # q => g[p] # g[q]}}

\* C10: the histogram after a user's allocation step gives every item the
\* weight it would have for any other order of the user's item list.
C10_OrderIndependent ==
    (pc = "users" /\ visited # <<>>) =>
        \A other \in Reorderings(items) :
            \A item \in Items :
                Weight(Allocate(hist0, other, gamma), item) = Weight(histogram, item)

====
